---- MODULE Spec2Model ----
(***************************************************************************)
(* Group Expenses bot (src/bot.py): the expense ledger of one chat, the    *)
(* period deriver get_periods, the aggregator get_stat_for_period, the     *)
(* export get_csv_for_period, the settlement solver get_settlement and the *)
(* handlers of /start, /setcategories, /expense, /stat, /getfile, /settle   *)
(* and /cancel.                                                            *)
(*                                                                         *)
(* Representation.                                                         *)
(*  - A ledger row is a record with the CSV columns Date, User, Category,  *)
(*    Price, Comment.                                                      *)
(*  - The Date text "YYYY-MM-DD HH:MM:SS" is the sequence of its           *)
(*    whitespace-separated tokens <<ymd, hms>>; a date text "YYYY-MM-DD"   *)
(*    is the triple <<y, m, d>>; a datetime.date object is the record      *)
(*    [year, month, day].                                                  *)
(*  - Money is counted in whole cents. A text (a Price or Comment field,   *)
(*    a message) is a record [kind, cents]: kind "number" is a decimal     *)
(*    numeral worth `cents`, kind "empty" the empty text, kind "nan" the   *)
(*    text "nan", which float() turns into the float nan, kind "text" a    *)
(*    text that float() rejects.                                           *)
(*  - A float of the handlers is a record [nan, cents]. The sums of the    *)
(*    core functions are whole cents, with a flag `nan` that tells when    *)
(*    the float they stand for is nan.                                     *)
(*  - round(x, 2) of a float that lies exactly between two cents goes to   *)
(*    the neighbour the binary representation of x is nearer to; the model *)
(*    leaves that choice open (see round2).                                *)
(*  - The text of a message with usernames or categories is the sequence   *)
(*    of its pieces: a blank, a line break, "," and "@" are pieces of      *)
(*    their own, every other piece is a run of other characters.           *)
(***************************************************************************)
EXTENDS Integers, Sequences, FiniteSets, TLC

VARIABLES
    file_exists,    \* expenses_file.exists()
    ledger,         \* the data rows of the expenses CSV file, in file order
    ret,            \* the last call of a core function: its arguments and result
    categories,     \* load_categories(chat_id); <<>> when none are saved
    conv,           \* the state of each ConversationHandler for the user
    user_data,      \* context.user_data, a dict
    reply           \* the last message the bot sent, and the handler that sent it

vars == <<file_exists, ledger, ret, categories, conv, user_data, reply>>

botvars == <<categories, conv, user_data, reply>>

NoCall == [op |-> "none"]

\* Conversation states
WAITING_FOR_CATEGORIES == 0
SELECTING_CATEGORY == 1
ENTERING_PRICE == 2
ENTERING_COMMENT == 3
SELECTING_PERIOD == 4
SELECTING_PERIOD_FOR_FILE == 5
SETTLEMENT_WAITING_FOR_USERS == 6
\* ConversationHandler.END: the conversation is over, the next update of the
\* user is matched against the entry points
END == -1

NoConversation ==
    [setup |-> END, expense |-> END, stat |-> END, getfile |-> END, settle |-> END]

NoReply == [handler |-> "none", kind |-> "none"]

\* The bot as started, for the specifications of the core functions
BotIdle ==
    /\ categories = <<>>
    /\ conv = NoConversation
    /\ user_data = <<>>
    /\ reply = NoReply

(***************************************************************************)
(* Dates                                                                   *)
(***************************************************************************)

\* datetime.strptime(date_str, "%Y-%m-%d").date()
strptime_date(date_str) ==
    [year |-> date_str[1], month |-> date_str[2], day |-> date_str[3]]

\* date.strftime("%Y-%m-%d"), and the f-strings f"{year}-{month:02d}-{day:02d}"
strftime_date(d) == <<d.year, d.month, d.day>>

\* row["Date"].split()[0] followed by strptime: the date part of a row
row_date_of(row) == strptime_date(row.Date[1])

\* datetime.date ordering: a <= b
date_le(a, b) ==
    \/ a.year < b.year
    \/ a.year = b.year /\ a.month < b.month
    \/ a.year = b.year /\ a.month = b.month /\ a.day <= b.day

(***************************************************************************)
(* Texts: a Price or Comment field, a message text                         *)
(***************************************************************************)

NumberText(c) == [kind |-> "number", cents |-> c]
EmptyText == [kind |-> "empty", cents |-> 0]
WordText == [kind |-> "text", cents |-> 0]
NanText == [kind |-> "nan", cents |-> 0]

\* float(text) succeeds
float_ok(price_text) == price_text.kind \in {"number", "nan"}

\* math.isnan(float(text))
float_isnan(price_text) == price_text.kind = "nan"

\* float(text), in cents, of a text that is a number
float_of(price_text) == price_text.cents

\* float(text) as a float of the handlers
float_value(text) == [nan |-> float_isnan(text), cents |-> float_of(text)]

\* The int 0, the default of user_data.get("expense_price", 0)
Zero == [nan |-> FALSE, cents |-> 0]

\* x <= 0: false for nan
float_le_zero(x) == ~x.nan /\ x.cents <= 0

\* str(x), as csv.writer writes a number
float_str(x) == IF x.nan THEN NanText ELSE NumberText(x.cents)

(***************************************************************************)
(* Dictionaries: a dict is a function on its key set.                      *)
(***************************************************************************)

EmptyDict == [k \in {} |-> 0]

\* d.get(k, 0.0)
dict_get(d, k) == IF k \in DOMAIN d THEN d[k] ELSE 0

\* d[k] = v
dict_set(d, k, v) == [x \in (DOMAIN d) \cup {k} |-> IF x = k THEN v ELSE d[x]]

RECURSIVE SumOver(_, _)
\* sum(d[k] for k in S)
SumOver(d, S) ==
    IF S = {} THEN 0
    ELSE LET k == CHOOSE x \in S : TRUE IN d[k] + SumOver(d, S \ {k})

\* sum(d.values())
dict_sum(d) == SumOver(d, DOMAIN d)

(***************************************************************************)
(* get_stat_for_period                                                     *)
(***************************************************************************)

StatError ==
    [ok |-> FALSE, nan |-> FALSE, total |-> 0, by_category |-> EmptyDict, by_user |-> EmptyDict]

\* Mutant of stat_row_in_window: a row whose price float() rejects is left
\* out of the sums.
stat_row_in_window_skip(acc, row) ==
    IF ~float_ok(row.Price) THEN acc
    ELSE LET price == float_of(row.Price) IN
         [ok |-> TRUE,
          nan |-> acc.nan \/ float_isnan(row.Price),
          total |-> acc.total + price,
          by_category |-> dict_set(acc.by_category, row.Category,
                                   dict_get(acc.by_category, row.Category) + price),
          by_user |-> dict_set(acc.by_user, row.User,
                               dict_get(acc.by_user, row.User) + price)]

\* One iteration of the loop over the rows: acc is the accumulator record.
\* Once a price is nan, total and the sums of its category and user are nan.
stat_row_in_window(acc, row) ==
    IF ~float_ok(row.Price) THEN StatError
    ELSE LET price == float_of(row.Price) IN
         [ok |-> TRUE,
          nan |-> acc.nan \/ float_isnan(row.Price),
          total |-> acc.total + price,
          by_category |-> dict_set(acc.by_category, row.Category,
                                   dict_get(acc.by_category, row.Category) + price),
          by_user |-> dict_set(acc.by_user, row.User,
                               dict_get(acc.by_user, row.User) + price)]

\* Mutant of stat_row: the end of the window is taken as exclusive.
stat_row_exclusive_end(acc, row, start_date, end_date) ==
    IF ~acc.ok THEN acc
    ELSE IF /\ date_le(start_date, row_date_of(row))
            /\ date_le(row_date_of(row), end_date)
            /\ row_date_of(row) # end_date
         THEN stat_row_in_window(acc, row)
         ELSE acc

stat_row(acc, row, start_date, end_date) ==
    IF ~acc.ok THEN acc
    ELSE IF date_le(start_date, row_date_of(row)) /\ date_le(row_date_of(row), end_date)
         THEN stat_row_in_window(acc, row)
         ELSE acc

RECURSIVE stat_loop(_, _, _, _, _)
stat_loop(rows, k, acc, start_date, end_date) ==
    IF k > Len(rows) THEN acc
    ELSE stat_loop(rows, k + 1, stat_row(acc, rows[k], start_date, end_date),
                   start_date, end_date)

\* Mutant of get_stat_for_period: by_category starts with a zero for each
\* of the categories "Food" and "Other".
get_stat_for_period_zero_fill(rows, start, end) ==
    stat_loop(rows, 1,
              [ok |-> TRUE, nan |-> FALSE, total |-> 0,
               by_category |-> [c \in {"Food", "Other"} |-> 0], by_user |-> EmptyDict],
              strptime_date(start), strptime_date(end))

\* get_stat_for_period(csv_file, start, end); ok = FALSE when float() raises.
get_stat_for_period(rows, start, end) ==
    stat_loop(rows, 1,
              [ok |-> TRUE, nan |-> FALSE, total |-> 0,
               by_category |-> EmptyDict, by_user |-> EmptyDict],
              strptime_date(start), strptime_date(end))

(***************************************************************************)
(* get_settlement                                                          *)
(***************************************************************************)

\* The set of the elements of a sequence: set(usernames)
Range(seq) == {seq[k] : k \in 1..Len(seq)}

\* Mutant of round2: the value is cut to whole cents (int() for round()).
round2_floor(num, den, up) == num \div den

\* round(num / den, 2) for a value of num / den cents, den > 0. A value
\* exactly between two cents is a float next to the tie, and round() takes
\* the side that float lies on: `up` says whether that is the upper cent.
round2(num, den, up) ==
    LET q == num \div den
        r == num % den
    IN  IF 2 * r < den THEN q
        ELSE IF 2 * r > den THEN q + 1
        ELSE IF up THEN q + 1 ELSE q

\* num / den lies exactly between two cents
is_tie(num, den) == 2 * (num % den) = den

\* Mutant of spent_row: a row of a user who is not selected is booked on
\* every selected user.
spent_row_unfiltered(spent, row, usernames_set) ==
    IF ~float_ok(row.Price) THEN spent
    ELSE [u \in DOMAIN spent |->
            IF row.User = u \/ row.User \notin usernames_set
            THEN spent[u] + float_of(row.Price) ELSE spent[u]]

\* Mutant of spent_row: a price that is not a number sets the spending of
\* the user back to zero.
spent_row_reset(spent, row, usernames_set) ==
    IF row.User \in usernames_set
    THEN IF ~float_ok(row.Price) THEN dict_set(spent, row.User, 0)
         ELSE dict_set(spent, row.User, spent[row.User] + float_of(row.Price))
    ELSE spent

\* One iteration of the loop that sums the spending of the selected users.
spent_row(spent, row, usernames_set) ==
    IF row.User \in usernames_set
    THEN IF row.Price.kind = "empty" THEN spent
         ELSE IF ~float_ok(row.Price) THEN spent
         ELSE dict_set(spent, row.User, spent[row.User] + float_of(row.Price))
    ELSE spent

RECURSIVE spent_loop(_, _, _, _)
spent_loop(rows, k, spent, usernames_set) ==
    IF k > Len(rows) THEN spent
    ELSE spent_loop(rows, k + 1, spent_row(spent, rows[k], usernames_set), usernames_set)

\* Some row of a selected user has the price nan: spent of that user,
\* total_spent, average and every balance are nan.
settlement_nan(rows, usernames) ==
    \E k \in 1..Len(rows) : rows[k].User \in Range(usernames) /\ float_isnan(rows[k].Price)

\* spent after the loop over the rows (lines 165-181)
settlement_spent(rows, usernames) ==
    spent_loop(rows, 1, [u \in Range(usernames) |-> 0], Range(usernames))

\* Mutant of balance_num: the total is taken without the user's own spending.
balance_num_without_own(spent, usernames, u) ==
    Len(usernames) * spent[u] - (dict_sum(spent) - spent[u])

\* Mutant of balance_num: average - spent[u] for spent[u] - average.
balance_num_negated(spent, usernames, u) ==
    dict_sum(spent) - Len(usernames) * spent[u]

\* n * (spent[u] - average), an integer number of cents (lines 184-186)
balance_num(spent, usernames, u) == Len(usernames) * spent[u] - dict_sum(spent)

\* balances = {u: round(spent[u] - average, 2) for u in usernames}
settlement_balances(spent, usernames, up) ==
    [u \in Range(usernames) |->
        IF Len(usernames) > 0
        THEN round2(balance_num(spent, usernames, u), Len(usernames), u \in up)
        ELSE spent[u]]

\* The roundings of get_settlement that fall on a tie: the users whose
\* balance does, and "average" when round(average, 2) does.
tie_keys(rows, usernames) ==
    LET spent == settlement_spent(rows, usernames)
        n == Len(usernames)
    IN  IF n = 0 THEN {}
        ELSE {u \in Range(usernames) : is_tie(balance_num(spent, usernames, u), n)}
             \cup (IF is_tie(dict_sum(spent), n) THEN {"average"} ELSE {})

RECURSIVE partition_balances(_, _, _, _)
\* The loop over balances.items(): the result is <<creditors, debtors>>,
\* each a sequence of <<name, balance>> in the order of usernames.
partition_balances(usernames, k, balances, acc) ==
    IF k > Len(usernames) THEN acc
    ELSE LET user == usernames[k]
             bal == balances[user]
         IN  partition_balances(usernames, k + 1, balances,
                 IF bal > 0 THEN <<Append(acc[1], <<user, bal>>), acc[2]>>
                 ELSE IF bal < 0 THEN <<acc[1], Append(acc[2], <<user, bal>>)>>
                 ELSE acc)

\* The place of x in a list sorted by `before`, behind every element that
\* does not come after it: list.sort is stable.
RECURSIVE insert_stable(_, _, _)
insert_stable(sorted, x, descending) ==
    IF sorted = <<>> THEN <<x>>
    ELSE IF (IF descending THEN Head(sorted)[2] >= x[2] ELSE Head(sorted)[2] <= x[2])
         THEN <<Head(sorted)>> \o insert_stable(Tail(sorted), x, descending)
         ELSE <<x>> \o sorted

RECURSIVE sort_loop(_, _, _, _)
sort_loop(list, k, sorted, descending) ==
    IF k > Len(list) THEN sorted
    ELSE sort_loop(list, k + 1, insert_stable(sorted, list[k], descending), descending)

\* Mutant of sort_by_balance: the list is left in the order of usernames.
sort_by_balance_unsorted(list, descending) == list

\* list.sort(key=lambda x: x[1], reverse=descending)
sort_by_balance(list, descending) == sort_loop(list, 1, <<>>, descending)

abs(x) == IF x < 0 THEN 0 - x ELSE x

min(a, b) == IF a <= b THEN a ELSE b

\* 0.01, the threshold under which a remaining balance counts as settled
Cent == 1

\* The state of the sweep: the two sorted lists, the pointers i and j
\* (counted from 0, as in the code) and the transactions so far.
sweep_running(st) == st.i < Len(st.creditors) /\ st.j < Len(st.debtors)

\* Mutant of sweep_step: both pointers move on after every transfer.
sweep_step_both_advance(st) ==
    LET cred == st.creditors[st.i + 1]
        debt == st.debtors[st.j + 1]
        transfer == min(cred[2], 0 - debt[2])
    IN  [creditors |-> [st.creditors EXCEPT ![st.i + 1] = <<cred[1], cred[2] - transfer>>],
         debtors |-> [st.debtors EXCEPT ![st.j + 1] = <<debt[1], debt[2] + transfer>>],
         i |-> st.i + 1,
         j |-> st.j + 1,
         transactions |->
            Append(st.transactions, [from |-> debt[1], to |-> cred[1], amount |-> transfer])]

\* Mutant of sweep_step: payer and payee are exchanged in the transaction.
sweep_step_swapped(st) ==
    LET cred == st.creditors[st.i + 1]
        debt == st.debtors[st.j + 1]
        transfer == min(cred[2], 0 - debt[2])
        cred_left == cred[2] - transfer
        debt_left == debt[2] + transfer
    IN  [creditors |-> [st.creditors EXCEPT ![st.i + 1] = <<cred[1], cred_left>>],
         debtors |-> [st.debtors EXCEPT ![st.j + 1] = <<debt[1], debt_left>>],
         i |-> IF abs(cred_left) < Cent THEN st.i + 1 ELSE st.i,
         j |-> IF abs(debt_left) < Cent THEN st.j + 1 ELSE st.j,
         transactions |->
            Append(st.transactions, [from |-> cred[1], to |-> debt[1], amount |-> transfer])]

\* Mutant of sweep_step: a transfer moves half of what can be moved.
sweep_step_half(st) ==
    LET cred == st.creditors[st.i + 1]
        debt == st.debtors[st.j + 1]
        transfer == (min(cred[2], 0 - debt[2]) + 1) \div 2
        cred_left == cred[2] - transfer
        debt_left == debt[2] + transfer
    IN  [creditors |-> [st.creditors EXCEPT ![st.i + 1] = <<cred[1], cred_left>>],
         debtors |-> [st.debtors EXCEPT ![st.j + 1] = <<debt[1], debt_left>>],
         i |-> IF abs(cred_left) < Cent THEN st.i + 1 ELSE st.i,
         j |-> IF abs(debt_left) < Cent THEN st.j + 1 ELSE st.j,
         transactions |->
            Append(st.transactions, [from |-> debt[1], to |-> cred[1], amount |-> transfer])]

\* Mutant of sweep_step: a transfer of more than 0.01 leaves 0.01 behind.
sweep_step_leave_cent(st) ==
    LET cred == st.creditors[st.i + 1]
        debt == st.debtors[st.j + 1]
        least == min(cred[2], 0 - debt[2])
        transfer == IF least > Cent THEN least - Cent ELSE least
        cred_left == cred[2] - transfer
        debt_left == debt[2] + transfer
    IN  [creditors |-> [st.creditors EXCEPT ![st.i + 1] = <<cred[1], cred_left>>],
         debtors |-> [st.debtors EXCEPT ![st.j + 1] = <<debt[1], debt_left>>],
         i |-> IF abs(cred_left) < Cent THEN st.i + 1 ELSE st.i,
         j |-> IF abs(debt_left) < Cent THEN st.j + 1 ELSE st.j,
         transactions |->
            Append(st.transactions, [from |-> debt[1], to |-> cred[1], amount |-> transfer])]

\* One iteration of the while loop (lines 208-230). The balances are whole
\* cents here, so the three round(x, 2) of the loop meet no tie.
sweep_step(st) ==
    LET cred == st.creditors[st.i + 1]
        debt == st.debtors[st.j + 1]
        transfer == round2(min(cred[2], 0 - debt[2]), 1, FALSE)
        cred_left == round2(cred[2] - transfer, 1, FALSE)
        debt_left == round2(debt[2] + transfer, 1, FALSE)
    IN  [creditors |-> [st.creditors EXCEPT ![st.i + 1] = <<cred[1], cred_left>>],
         debtors |-> [st.debtors EXCEPT ![st.j + 1] = <<debt[1], debt_left>>],
         i |-> IF abs(cred_left) < Cent THEN st.i + 1 ELSE st.i,
         j |-> IF abs(debt_left) < Cent THEN st.j + 1 ELSE st.j,
         transactions |->
            IF transfer > 0
            THEN Append(st.transactions,
                        [from |-> debt[1], to |-> cred[1], amount |-> transfer])
            ELSE st.transactions]

RECURSIVE sweep(_)
sweep(st) == IF sweep_running(st) THEN sweep(sweep_step(st)) ELSE st

\* The sweep state at line 207
sweep_start(usernames, balances) ==
    LET parts == partition_balances(usernames, 1, balances, <<(<<>>), (<<>>)>>)
    IN  [creditors |-> sort_by_balance(parts[1], TRUE),
         debtors |-> sort_by_balance(parts[2], FALSE),
         i |-> 0, j |-> 0, transactions |-> <<>>]

\* get_settlement(csv_file, usernames); up resolves the roundings on a tie.
get_settlement(rows, usernames, up) ==
    LET spent == settlement_spent(rows, usernames)
        n == Len(usernames)
        balances == settlement_balances(spent, usernames, up)
    IN  IF settlement_nan(rows, usernames)
        THEN \* a nan balance is neither > 0 nor < 0: nobody pays
             [nan |-> TRUE, spent |-> spent, average |-> 0,
              balances |-> [u \in Range(usernames) |-> 0], transactions |-> <<>>]
        ELSE [nan |-> FALSE,
              spent |-> spent,
              average |-> IF n > 0 THEN round2(dict_sum(spent), n, "average" \in up) ELSE 0,
              balances |-> balances,
              transactions |-> sweep(sweep_start(usernames, balances)).transactions]

(***************************************************************************)
(* get_periods                                                             *)
(***************************************************************************)

\* calendar.month_name
month_name ==
    <<"January", "February", "March", "April", "May", "June", "July",
      "August", "September", "October", "November", "December">>

\* calendar.isleap(year)
isleap(year) == year % 4 = 0 /\ (year % 100 # 0 \/ year % 400 = 0)

\* calendar.mdays[1:]
mdays == <<31, 28, 31, 30, 31, 30, 31, 31, 30, 31, 30, 31>>

\* Mutant of monthrange_days: February has 28 days in every year.
monthrange_days_no_leap(year, month) == mdays[month]

\* calendar.monthrange(year, month)[1]
monthrange_days(year, month) ==
    mdays[month] + (IF month = 2 /\ isleap(year) THEN 1 ELSE 0)

RECURSIVE parse_dates(_, _)
\* The loop that reads the date part of every row (lines 413-418)
parse_dates(rows, k) ==
    IF k > Len(rows) THEN <<>>
    ELSE <<row_date_of(rows[k])>> \o parse_dates(rows, k + 1)

\* tuple ordering of (year, month) pairs: a < b
month_lt(a, b) == a[1] < b[1] \/ (a[1] = b[1] /\ a[2] < b[2])

RECURSIVE sorted_months_desc(_)
\* sorted(S, reverse=True) for a set of (year, month) pairs
sorted_months_desc(S) ==
    IF S = {} THEN <<>>
    ELSE LET top == CHOOSE a \in S : \A b \in S : ~month_lt(a, b)
         IN  <<top>> \o sorted_months_desc(S \ {top})

RECURSIVE sorted_years_asc(_)
\* Mutant of sorted_years_desc: the years in ascending order.
sorted_years_asc(S) ==
    IF S = {} THEN <<>>
    ELSE LET low == CHOOSE a \in S : \A b \in S : a <= b
         IN  <<low>> \o sorted_years_asc(S \ {low})

RECURSIVE sorted_years_desc(_)
\* sorted(S, reverse=True) for a set of years
sorted_years_desc(S) ==
    IF S = {} THEN <<>>
    ELSE LET top == CHOOSE a \in S : \A b \in S : a >= b
         IN  <<top>> \o sorted_years_desc(S \ {top})

\* min(dates)
min_date(dates) ==
    CHOOSE d \in Range(dates) : \A e \in Range(dates) : date_le(d, e)

\* Mutant of max_date: the date of the last row, as if the rows were in
\* the order of their dates.
max_date_last_row(dates) == dates[Len(dates)]

\* max(dates)
max_date(dates) ==
    CHOOSE d \in Range(dates) : \A e \in Range(dates) : date_le(e, d)

\* unique_months[:3]
first_three(seq) == SubSeq(seq, 1, min(3, Len(seq)))

\* The window of one of the last months (lines 432-437)
month_window(ym) ==
    <<month_name[ym[2]],
      <<ym[1], ym[2], 1>>,
      <<ym[1], ym[2], monthrange_days(ym[1], ym[2])>>>>

\* Mutant of year_window: the year after the last year of the ledger.
year_window_next(last_year) ==
    <<ToString(last_year + 1), <<last_year + 1, 1, 1>>, <<last_year + 1, 12, 31>>>>

\* The window of the last year (lines 442-445)
year_window(last_year) ==
    <<ToString(last_year), <<last_year, 1, 1>>, <<last_year, 12, 31>>>>

\* get_periods(csv_file): a sequence of <<name, first_date, last_date>>
get_periods(rows) ==
    LET dates == parse_dates(rows, 1) IN
    IF dates = <<>> THEN <<>>
    ELSE LET unique_months ==
                 sorted_months_desc({<<dates[k].year, dates[k].month>> : k \in 1..Len(dates)})
             last_months == first_three(unique_months)
             unique_years == sorted_years_desc({dates[k].year : k \in 1..Len(dates)})
         IN  [k \in 1..Len(last_months) |-> month_window(last_months[k])]
             \o (IF unique_years # <<>> THEN <<year_window(unique_years[1])>> ELSE <<>>)
             \o <<(<<"All period", strftime_date(min_date(dates)),
                                   strftime_date(max_date(dates))>>)>>

(***************************************************************************)
(* get_csv_for_period                                                      *)
(***************************************************************************)

\* reader.fieldnames: the header line of the expenses file
fieldnames == <<"Date", "User", "Category", "Price", "Comment">>

\* Mutant of csv_filtered_rows: only the rows whose price is a number are kept.
csv_filtered_rows_numbers_only(rows, start, end) ==
    SelectSeq(rows, LAMBDA row :
        /\ date_le(strptime_date(start), row_date_of(row))
        /\ date_le(row_date_of(row), strptime_date(end))
        /\ float_ok(row.Price))

\* filtered_rows, a list of row dicts (lines 379-390)
csv_filtered_rows(rows, start, end) ==
    SelectSeq(rows, LAMBDA row :
        /\ date_le(strptime_date(start), row_date_of(row))
        /\ date_le(row_date_of(row), strptime_date(end)))

\* DictWriter.writerow: the line of a row dict, its fields in the order of
\* fieldnames
csv_write_row(row) == [c \in 1..Len(fieldnames) |-> row[fieldnames[c]]]

\* The file get_csv_for_period writes: the header line and the data lines
get_csv_for_period(rows, start, end) ==
    LET filtered_rows == csv_filtered_rows(rows, start, end) IN
    [header |-> fieldnames,
     lines |-> [k \in 1..Len(filtered_rows) |-> csv_write_row(filtered_rows[k])]]

(***************************************************************************)
(* save_expense                                                            *)
(***************************************************************************)

\* Mutant of save_expense: the file is opened with "w", not "a".
save_expense_overwrite(rows, now, user, category, price, comment) ==
    <<[Date |-> <<strftime_date(now), "12:00:00">>, User |-> user,
       Category |-> category, Price |-> float_str(price),
       Comment |-> comment]>>

\* The file after save_expense: one row appended, dated now. The price, a
\* float or the int 0, is written as str() gives it.
save_expense(rows, now, user, category, price, comment) ==
    Append(rows, [Date |-> <<strftime_date(now), "12:00:00">>, User |-> user,
                  Category |-> category, Price |-> float_str(price),
                  Comment |-> comment])

(***************************************************************************)
(* The handlers. An update reaches the first ConversationHandler, in the   *)
(* order setup, expense, stat, getfile, settle, that has a handler for it: *)
(* an entry point when the user has no conversation with it, a handler of  *)
(* the current state or a fallback otherwise.                              *)
(***************************************************************************)

\* user.username or user.name or str(user.id), of the one user of the model
BotUser == "alice"

\* context.user_data.get(key, default)
user_data_get(data, key, default) == IF key \in DOMAIN data THEN data[key] ELSE default

\* The inline keyboard of the periods: the button texts and callback data
period_keyboard(periods, prefix) ==
    [k \in 1..Len(periods) |-> [text |-> periods[k][1], data |-> <<prefix, k - 1>>]]

\* Mutant of stat_command_outcome: an empty list of periods is offered too.
stat_command_outcome_no_empty_check(exists, rows) ==
    IF ~exists
    THEN [next |-> END, kind |-> "no_expenses_recorded", periods |-> <<>>]
    ELSE [next |-> SELECTING_PERIOD, kind |-> "choose_period",
          periods |-> get_periods(rows)]

\* stat_command up to its replies: the state it returns, the message it
\* sends and the periods it stores.
stat_command_outcome(exists, rows) ==
    IF ~exists
    THEN [next |-> END, kind |-> "no_expenses_recorded", periods |-> <<>>]
    ELSE LET periods == get_periods(rows) IN
         IF periods = <<>>
         THEN [next |-> END, kind |-> "no_expenses_found", periods |-> <<>>]
         ELSE [next |-> SELECTING_PERIOD, kind |-> "choose_period", periods |-> periods]

\* /stat
stat_command ==
    /\ conv.stat = END
    /\ LET out == stat_command_outcome(file_exists, ledger) IN
       /\ conv' = [conv EXCEPT !.stat = out.next]
       /\ user_data' = IF out.kind = "choose_period"
                       THEN dict_set(user_data, "stat_periods", out.periods)
                       ELSE user_data
       /\ reply' = [handler |-> "stat_command", kind |-> out.kind,
                    keyboard |-> period_keyboard(out.periods, "period")]
    /\ UNCHANGED <<file_exists, ledger, ret, categories>>

\* if stats["total"] == 0: the branch "No expenses found in this period"
no_expenses_found(stats) == stats.total = 0

\* A press on the button "period_<period_idx>" of some keyboard of /stat
period_selected(period_idx) ==
    /\ conv.stat = SELECTING_PERIOD
    /\ LET periods == user_data_get(user_data, "stat_periods", <<>>) IN
       IF period_idx >= Len(periods)
       THEN /\ reply' = [handler |-> "period_selected", kind |-> "invalid_period"]
            /\ conv' = [conv EXCEPT !.stat = END]
            /\ UNCHANGED user_data
       ELSE LET period == periods[period_idx + 1]
                stats == get_stat_for_period(ledger, period[2], period[3])
            IN  IF ~stats.ok
                THEN \* float() raises: the handler ends without a new state
                     /\ reply' = [handler |-> "period_selected", kind |-> "exception"]
                     /\ UNCHANGED <<conv, user_data>>
                ELSE IF stats.nan
                THEN \* total is nan; whether the pie chart of sums that are
                     \* nan can be drawn is left open
                     \/ /\ reply' = [handler |-> "period_selected", kind |-> "statistics"]
                        /\ user_data' = <<>>
                        /\ conv' = [conv EXCEPT !.stat = END]
                     \/ /\ reply' = [handler |-> "period_selected", kind |-> "exception"]
                        /\ UNCHANGED <<conv, user_data>>
                ELSE /\ reply' = [handler |-> "period_selected",
                                  kind |-> IF no_expenses_found(stats) THEN "no_expenses_in_period"
                                           ELSE "statistics"]
                     /\ user_data' = <<>>
                     /\ conv' = [conv EXCEPT !.stat = END]
    /\ UNCHANGED <<file_exists, ledger, ret, categories>>

\* getfile_command up to its replies
getfile_command_outcome(exists, rows) ==
    IF ~exists
    THEN [next |-> END, kind |-> "no_expenses_recorded", periods |-> <<>>]
    ELSE LET periods == get_periods(rows) IN
         IF periods = <<>>
         THEN [next |-> END, kind |-> "no_expenses_found", periods |-> <<>>]
         ELSE [next |-> SELECTING_PERIOD_FOR_FILE, kind |-> "choose_period",
               periods |-> periods]

\* /getfile
getfile_command ==
    /\ conv.getfile = END
    /\ LET out == getfile_command_outcome(file_exists, ledger) IN
       /\ conv' = [conv EXCEPT !.getfile = out.next]
       /\ user_data' = IF out.kind = "choose_period"
                       THEN dict_set(user_data, "file_periods", out.periods)
                       ELSE user_data
       /\ reply' = [handler |-> "getfile_command", kind |-> out.kind,
                    keyboard |-> period_keyboard(out.periods, "fileperiod")]
    /\ UNCHANGED <<file_exists, ledger, ret, categories>>

\* A press on the button "fileperiod_<period_idx>" of some keyboard of /getfile
file_period_selected(period_idx) ==
    /\ conv.getfile = SELECTING_PERIOD_FOR_FILE
    /\ LET periods == user_data_get(user_data, "file_periods", <<>>) IN
       IF period_idx >= Len(periods)
       THEN /\ reply' = [handler |-> "file_period_selected", kind |-> "invalid_period"]
            /\ conv' = [conv EXCEPT !.getfile = END]
            /\ UNCHANGED user_data
       ELSE LET period == periods[period_idx + 1] IN
            /\ reply' = [handler |-> "file_period_selected", kind |-> "document",
                         document |-> get_csv_for_period(ledger, period[2], period[3])]
            /\ user_data' = <<>>
            /\ conv' = [conv EXCEPT !.getfile = END]
    /\ UNCHANGED <<file_exists, ledger, ret, categories>>

\* /expense
expense_command ==
    /\ conv.expense = END
    /\ IF categories = <<>>
       THEN /\ reply' = [handler |-> "expense_command", kind |-> "categories_not_set"]
            /\ conv' = [conv EXCEPT !.expense = END]
       ELSE /\ reply' = [handler |-> "expense_command", kind |-> "choose_category",
                         keyboard |-> [k \in 1..Len(categories) |->
                                          [text |-> categories[k],
                                           data |-> <<"cat", categories[k]>>]]]
            /\ conv' = [conv EXCEPT !.expense = SELECTING_CATEGORY]
    /\ UNCHANGED <<file_exists, ledger, ret, categories, user_data>>

\* A press on the button "cat_<category>"
category_selected(category) ==
    /\ conv.expense = SELECTING_CATEGORY
    /\ user_data' = dict_set(user_data, "expense_category", category)
    /\ reply' = [handler |-> "category_selected", kind |-> "enter_price"]
    /\ conv' = [conv EXCEPT !.expense = ENTERING_PRICE]
    /\ UNCHANGED <<file_exists, ledger, ret, categories>>

\* A text message while the price is awaited
receive_price(text) ==
    /\ conv.setup # WAITING_FOR_CATEGORIES
    /\ conv.expense = ENTERING_PRICE
    /\ IF float_ok(text) /\ ~float_le_zero(float_value(text))
       THEN /\ user_data' = dict_set(user_data, "expense_price", float_value(text))
            /\ reply' = [handler |-> "receive_price", kind |-> "enter_comment"]
            /\ conv' = [conv EXCEPT !.expense = ENTERING_COMMENT]
       ELSE /\ reply' = [handler |-> "receive_price", kind |-> "invalid_price"]
            /\ conv' = [conv EXCEPT !.expense = ENTERING_PRICE]
            /\ UNCHANGED user_data
    /\ UNCHANGED <<file_exists, ledger, ret, categories>>

\* The end of the expense flow: receive_comment with the text of the
\* message, skip_comment with the empty comment.
finish_expense(handler, now, comment) ==
    LET category == user_data_get(user_data, "expense_category", "Unknown")
        price == user_data_get(user_data, "expense_price", Zero)
    IN  /\ ledger' = save_expense(ledger, now, BotUser, category, price, comment)
        /\ file_exists' = TRUE
        /\ user_data' = <<>>
        /\ reply' = [handler |-> handler, kind |-> "expense_saved"]
        /\ conv' = [conv EXCEPT !.expense = END]
        /\ UNCHANGED <<ret, categories>>

\* A text message while the comment is awaited
receive_comment(now, text) ==
    /\ conv.setup # WAITING_FOR_CATEGORIES
    /\ conv.expense = ENTERING_COMMENT
    /\ finish_expense("receive_comment", now, text)

\* /skip while the comment is awaited
skip_comment(now) ==
    /\ conv.expense = ENTERING_COMMENT
    /\ finish_expense("skip_comment", now, EmptyText)

\* /settle
settle_command ==
    /\ conv.settle = END
    /\ IF ~file_exists
       THEN /\ reply' = [handler |-> "settle_command", kind |-> "no_expenses_recorded"]
            /\ conv' = [conv EXCEPT !.settle = END]
       ELSE /\ reply' = [handler |-> "settle_command", kind |-> "send_usernames"]
            /\ conv' = [conv EXCEPT !.settle = SETTLEMENT_WAITING_FOR_USERS]
    /\ UNCHANGED <<file_exists, ledger, ret, categories, user_data>>

\* The text of a message is a sequence of pieces: a blank, a line break, a
\* comma and "@" are each a piece of their own, every other piece is a run of
\* other characters. The string is the concatenation of the pieces.
Whitespace == {" ", "\n"}

RECURSIVE str_join(_)
\* "".join(pieces)
str_join(pieces) == IF pieces = <<>> THEN "" ELSE Head(pieces) \o str_join(Tail(pieces))

RECURSIVE str_lstrip(_)
str_lstrip(text) ==
    IF text # <<>> /\ Head(text) \in Whitespace THEN str_lstrip(Tail(text)) ELSE text

RECURSIVE str_rstrip(_)
str_rstrip(text) ==
    IF text # <<>> /\ text[Len(text)] \in Whitespace
    THEN str_rstrip(SubSeq(text, 1, Len(text) - 1))
    ELSE text

\* text.strip()
str_strip(text) == str_rstrip(str_lstrip(text))

\* text.replace(old, new), old and new being pieces
str_replace(text, old, new) ==
    [k \in 1..Len(text) |-> IF text[k] = old THEN new ELSE text[k]]

RECURSIVE str_split(_, _, _)
\* text.split(): the runs of pieces between whitespace; word is the run
\* being read and words the runs read so far.
str_split(text, word, words) ==
    IF text = <<>> THEN (IF word = <<>> THEN words ELSE Append(words, word))
    ELSE IF Head(text) \in Whitespace
         THEN str_split(Tail(text), <<>>,
                        IF word = <<>> THEN words ELSE Append(words, word))
         ELSE str_split(Tail(text), Append(word, Head(text)), words)

\* raw_tokens = text.replace(",", " ").split(), text being stripped before
raw_tokens_of(text) == str_split(str_replace(str_strip(text), ",", " "), <<>>, <<>>)

RECURSIVE str_lstrip_at(_)
\* name.lstrip("@")
str_lstrip_at(name) ==
    IF name # <<>> /\ Head(name) = "@" THEN str_lstrip_at(Tail(name)) ELSE name

\* Mutant of username_of: every leading "@" is removed.
username_of_lstrip_at(token) == str_join(str_lstrip_at(str_strip(token)))

\* Mutant of username_of: the leading "@" is kept.
username_of_keep_at(token) == str_join(str_strip(token))

\* The name a token stands for (lines 282-288): the token without one
\* leading "@"; "" when the loop skips the token.
username_of(token) ==
    LET name == str_strip(token) IN
    IF name = <<>> THEN ""
    ELSE IF Head(name) = "@" THEN str_join(Tail(name))
    ELSE str_join(name)

RECURSIVE parse_usernames(_, _, _)
\* The loop over raw_tokens (lines 281-290): empty names and names already
\* listed are dropped.
parse_usernames(raw_tokens, k, usernames) ==
    IF k > Len(raw_tokens) THEN usernames
    ELSE LET name == username_of(raw_tokens[k]) IN
         parse_usernames(raw_tokens, k + 1,
             IF name = "" \/ name \in Range(usernames) THEN usernames
             ELSE Append(usernames, name))

\* usernames after the loop
usernames_of(text) == parse_usernames(raw_tokens_of(text), 1, <<>>)

\* No call of get_settlement
NoSettlement == [nan |-> FALSE, spent |-> <<>>, average |-> 0, balances |-> <<>>,
                 transactions |-> <<>>]

\* The lines of the summary under "Optimal settlement transactions", one
\* for each transaction: from, to and the amount
transaction_lines(transactions) ==
    [k \in 1..Len(transactions) |->
        <<transactions[k].from, transactions[k].to, transactions[k].amount>>]

\* Mutant of settlement_outcome: the summary is sent whenever something was
\* spent.
settlement_outcome_total_only(rows, text, up) ==
    LET usernames == usernames_of(text) IN
    IF usernames = <<>>
    THEN [next |-> SETTLEMENT_WAITING_FOR_USERS, kind |-> "no_usernames",
          called |-> FALSE, usernames |-> usernames, result |-> NoSettlement,
          lines |-> <<>>]
    ELSE LET result == get_settlement(rows, usernames, up) IN
         IF ~result.nan /\ dict_sum(result.spent) = 0
         THEN [next |-> END, kind |-> "no_settlement_needed",
               called |-> TRUE, usernames |-> usernames, result |-> result,
               lines |-> <<>>]
         ELSE [next |-> END, kind |-> "settlement_summary",
               called |-> TRUE, usernames |-> usernames, result |-> result,
               lines |-> transaction_lines(result.transactions)]

\* receive_settlement_users once the file is known to exist: the state it
\* returns, the message it sends, whether it has called get_settlement,
\* with which usernames and with which result, and the transaction lines
\* of the summary.
settlement_outcome(rows, text, up) ==
    LET usernames == usernames_of(text) IN
    IF usernames = <<>>
    THEN [next |-> SETTLEMENT_WAITING_FOR_USERS, kind |-> "no_usernames",
          called |-> FALSE, usernames |-> usernames, result |-> NoSettlement,
          lines |-> <<>>]
    ELSE LET result == get_settlement(rows, usernames, up) IN
         IF (~result.nan /\ dict_sum(result.spent) = 0) \/ result.transactions = <<>>
         THEN [next |-> END, kind |-> "no_settlement_needed",
               called |-> TRUE, usernames |-> usernames, result |-> result,
               lines |-> <<>>]
         ELSE [next |-> END, kind |-> "settlement_summary",
               called |-> TRUE, usernames |-> usernames, result |-> result,
               lines |-> transaction_lines(result.transactions)]

\* A text message while the usernames of a settlement are awaited, and no
\* earlier ConversationHandler takes text messages
receive_settlement_users(text) ==
    /\ conv.setup # WAITING_FOR_CATEGORIES
    /\ conv.expense \notin {ENTERING_PRICE, ENTERING_COMMENT}
    /\ conv.settle = SETTLEMENT_WAITING_FOR_USERS
    /\ IF ~file_exists
       THEN /\ reply' = [handler |-> "receive_settlement_users",
                         kind |-> "no_expenses_recorded", text |-> text,
                         called |-> FALSE, usernames |-> <<>>,
                         result |-> NoSettlement, lines |-> <<>>]
            /\ conv' = [conv EXCEPT !.settle = END]
       ELSE \E up \in SUBSET tie_keys(ledger, usernames_of(text)) :
              LET out == settlement_outcome(ledger, text, up) IN
              /\ reply' = [handler |-> "receive_settlement_users",
                           kind |-> out.kind, text |-> text,
                           called |-> out.called, usernames |-> out.usernames,
                           result |-> out.result, lines |-> out.lines]
              /\ conv' = [conv EXCEPT !.settle = out.next]
    /\ UNCHANGED <<file_exists, ledger, ret, categories, user_data>>

RECURSIVE str_split_on(_, _, _, _)
\* text.split(sep), sep being a piece: the runs of pieces between two sep,
\* the empty runs too; part is the run being read.
str_split_on(text, sep, part, parts) ==
    IF text = <<>> THEN Append(parts, part)
    ELSE IF Head(text) = sep
         THEN str_split_on(Tail(text), sep, <<>>, Append(parts, part))
         ELSE str_split_on(Tail(text), sep, Append(part, Head(text)), parts)

\* piece.lower(), for the pieces of the category texts
str_lower(piece) ==
    CASE piece = "Food" -> "food"
      [] piece \in {"Other", "OTHER"} -> "other"
      [] OTHER -> piece

\* [cat.strip() for cat in text.split(",") if cat.strip()], each label still
\* in pieces
category_labels(text) ==
    LET parts == str_split_on(text, ",", <<>>, <<>>)
        stripped == [k \in 1..Len(parts) |-> str_strip(parts[k])]
    IN  SelectSeq(stripped, LAMBDA cat : cat # <<>>)

\* The list receive_categories saves (lines 761-772): the labels in the
\* order of the text, and "Other" behind them unless a label is "Other" in
\* some spelling of upper and lower case. <<>> when the text has no label.
parse_categories(text) ==
    LET labels == category_labels(text)
        categories_list == [k \in 1..Len(labels) |-> str_join(labels[k])]
        lowered == {str_join([j \in 1..Len(labels[k]) |-> str_lower(labels[k][j])]) :
                       k \in 1..Len(labels)}
    IN  IF labels = <<>> THEN <<>>
        ELSE IF "Other" \notin Range(categories_list) /\ "other" \notin lowered
             THEN Append(categories_list, "Other")
             ELSE categories_list

\* /start: the handler start (the name start is taken by the window bounds)
start_command ==
    /\ conv.setup = END
    /\ IF categories # <<>>
       THEN /\ reply' = [handler |-> "start", kind |-> "welcome_back"]
            /\ conv' = [conv EXCEPT !.setup = END]
       ELSE /\ reply' = [handler |-> "start", kind |-> "enter_categories"]
            /\ conv' = [conv EXCEPT !.setup = WAITING_FOR_CATEGORIES]
    /\ UNCHANGED <<file_exists, ledger, ret, categories, user_data>>

\* /setcategories
set_categories_command ==
    /\ conv.setup = END
    /\ reply' = [handler |-> "set_categories_command", kind |-> "enter_categories"]
    /\ conv' = [conv EXCEPT !.setup = WAITING_FOR_CATEGORIES]
    /\ UNCHANGED <<file_exists, ledger, ret, categories, user_data>>

\* A text message while the categories are awaited
receive_categories(text) ==
    /\ conv.setup = WAITING_FOR_CATEGORIES
    /\ LET saved == parse_categories(text) IN
       IF saved = <<>>
       THEN /\ reply' = [handler |-> "receive_categories", kind |-> "no_valid_categories"]
            /\ conv' = [conv EXCEPT !.setup = WAITING_FOR_CATEGORIES]
            /\ UNCHANGED categories
       ELSE /\ categories' = saved
            /\ reply' = [handler |-> "receive_categories", kind |-> "categories_saved"]
            /\ conv' = [conv EXCEPT !.setup = END]
    /\ UNCHANGED <<file_exists, ledger, ret, user_data>>

\* The ConversationHandler that takes /cancel: the first with a conversation
cancelled_handler ==
    IF conv.setup # END THEN "setup"
    ELSE IF conv.expense # END THEN "expense"
    ELSE IF conv.stat # END THEN "stat"
    ELSE IF conv.getfile # END THEN "getfile"
    ELSE "settle"

\* /cancel
cancel ==
    /\ conv # NoConversation
    /\ user_data' = <<>>
    /\ reply' = [handler |-> "cancel", kind |-> "cancelled"]
    /\ conv' = [conv EXCEPT ![cancelled_handler] = END]
    /\ UNCHANGED <<file_exists, ledger, ret, categories>>

(***************************************************************************)
(* The bot: inputs and specification                                       *)
(***************************************************************************)

\* The number of expenses the user saves
MaxBotRows == 1

\* The days on which expenses are saved
BotDates == {<<2024, 2, 1>>}

\* The expenses file another user has left: one row of the day before
PriorLedger ==
    <<[Date |-> <<(<<2024, 1, 31>>), "12:00:00">>, User |-> "bob",
       Category |-> "Food", Price |-> NumberText(275), Comment |-> EmptyText]>>

\* The rows of the ledger the user has saved
SavedRows == Cardinality({k \in 1..Len(ledger) : ledger[k].User = BotUser})

\* The texts sent as a price and as a comment
PriceTexts == {NumberText(150), NumberText(0), NumberText(-150), WordText, NanText}
CommentTexts == {WordText}

\* The messages sent as the usernames of a settlement: "@", "alice" and
\* "@alice, bob alice"
SettleTexts ==
    {<<"@">>,
     <<"alice">>,
     <<"@", "alice", ",", " ", "bob", " ", "alice">>}

\* The callback data period_<i> and fileperiod_<i> of the buttons
PeriodButtons == {0, 3, 4}

\* datetime.now() at a save: the clock does not run backwards
Now == {strptime_date(ymd) : ymd \in
           {d \in BotDates : ledger = <<>> \/
                             date_le(row_date_of(ledger[Len(ledger)]), strptime_date(d))}}

Init ==
    /\ file_exists \in BOOLEAN
    /\ ledger \in (IF file_exists THEN {<<>>, PriorLedger} ELSE {<<>>})
    /\ ret = NoCall
    /\ categories \in {<<>>, <<"Other">>}
    /\ conv = NoConversation
    /\ user_data = <<>>
    /\ reply = NoReply

Next ==
    \/ stat_command
    \/ \E period_idx \in PeriodButtons : period_selected(period_idx)
    \/ getfile_command
    \/ \E period_idx \in PeriodButtons : file_period_selected(period_idx)
    \/ expense_command
    \/ \E k \in 1..Len(categories) : category_selected(categories[k])
    \/ \E text \in PriceTexts : receive_price(text)
    \/ \E now \in Now, text \in CommentTexts :
          SavedRows < MaxBotRows /\ receive_comment(now, text)
    \/ \E now \in Now : SavedRows < MaxBotRows /\ skip_comment(now)
    \/ settle_command
    \/ \E text \in SettleTexts : receive_settlement_users(text)
    \/ cancel

Spec == Init /\ [][Next]_vars

(***************************************************************************)
(* Inputs of the aggregator specification                                  *)
(***************************************************************************)

MaxStatRows == 2

StatDates == {<<2024, 1, 31>>, <<2024, 2, 1>>, <<2024, 2, 29>>}
StatUsers == {"alice", "bob"}
StatCategories == {"Food", "Other"}
StatPrices == {NumberText(150), NumberText(275), WordText, EmptyText}

StatRows ==
    [Date : {<<ymd, "12:00:00">> : ymd \in StatDates},
     User : StatUsers, Category : StatCategories,
     Price : StatPrices, Comment : {EmptyText}]

SeqsUpTo(S, n) == UNION {[1..k -> S] : k \in 0..n}

\* The chat has the one category "Other" saved; the rows carry others too.
InitStat ==
    /\ file_exists = TRUE
    /\ ledger \in SeqsUpTo(StatRows, MaxStatRows)
    /\ ret = NoCall
    /\ categories = <<"Other">>
    /\ conv = NoConversation
    /\ user_data = <<>>
    /\ reply = NoReply

call_get_stat_for_period ==
    /\ file_exists /\ ret = NoCall
    /\ \E start \in StatDates, end \in StatDates :
          ret' = [op |-> "get_stat_for_period", start |-> start, end |-> end,
                  result |-> get_stat_for_period(ledger, start, end)]
    /\ UNCHANGED <<file_exists, ledger, botvars>>

NextStat == call_get_stat_for_period

SpecStat == InitStat /\ [][NextStat]_vars

(***************************************************************************)
(* Inputs of the export specification                                      *)
(***************************************************************************)

MaxCsvRows == 3

CsvRows ==
    [Date : {<<ymd, "12:00:00">> : ymd \in StatDates},
     User : {"alice"}, Category : {"Food"},
     Price : {NumberText(150), WordText}, Comment : {EmptyText, WordText}]

InitCsv ==
    /\ file_exists = TRUE
    /\ ledger \in SeqsUpTo(CsvRows, MaxCsvRows)
    /\ ret = NoCall
    /\ BotIdle

call_get_csv_for_period ==
    /\ file_exists /\ ret = NoCall
    /\ \E start \in StatDates, end \in StatDates :
          ret' = [op |-> "get_csv_for_period", start |-> start, end |-> end,
                  result |-> get_csv_for_period(ledger, start, end)]
    /\ UNCHANGED <<file_exists, ledger, botvars>>

NextCsv == call_get_csv_for_period

SpecCsv == InitCsv /\ [][NextCsv]_vars

(***************************************************************************)
(* Inputs of the settlement specification                                  *)
(***************************************************************************)

MaxSettleRows == 2

SettleUsers == {"alice", "bob", "carol", "dave", "erin"}
SettleSpenders == {"alice", "bob"}
SettlePrices == {NumberText(1), NumberText(7), WordText, EmptyText}

SettleRows ==
    [Date : {<<(<<2024, 2, 1>>), "12:00:00">>},
     User : SettleSpenders, Category : {"Food"},
     Price : SettlePrices, Comment : {EmptyText}]

\* The participant lists receive_settlement_users passes: not empty, no
\* name twice.
DistinctSeqs(S) ==
    {q \in UNION {[1..k -> S] : k \in 1..Cardinality(S)} :
        \A a, b \in 1..Len(q) : a # b => q[a] # q[b]}

\* The users without a row in SettleRows
SettleIdle == <<"carol", "dave", "erin">>

\* The participant lists of the calls. get_settlement tells names apart only
\* by equality and by their place in the list, so the users without a row
\* are listed in one order among themselves, carol first.
SettleUsernames ==
    {q \in DistinctSeqs(SettleUsers) :
        \E m \in 0..Len(SettleIdle) :
            SelectSeq(q, LAMBDA u : u \notin SettleSpenders) = SubSeq(SettleIdle, 1, m)}

\* A ledger of three users over three months: 10.00, 30.00 and 20.00
ThreeUserLedger ==
    <<[Date |-> <<(<<2023, 12, 31>>), "12:00:00">>, User |-> "alice",
       Category |-> "Food", Price |-> NumberText(1000), Comment |-> EmptyText],
      [Date |-> <<(<<2024, 1, 1>>), "12:00:00">>, User |-> "bob",
       Category |-> "Food", Price |-> NumberText(3000), Comment |-> EmptyText],
      [Date |-> <<(<<2024, 2, 29>>), "12:00:00">>, User |-> "carol",
       Category |-> "Other", Price |-> NumberText(2000), Comment |-> EmptyText]>>

InitSettle ==
    /\ file_exists = TRUE
    /\ ledger \in SeqsUpTo(SettleRows, MaxSettleRows) \cup {ThreeUserLedger}
    /\ ret = NoCall
    /\ BotIdle

call_get_settlement ==
    /\ file_exists /\ ret = NoCall
    /\ \E usernames \in SettleUsernames :
          \E up \in SUBSET tie_keys(ledger, usernames) :
             ret' = [op |-> "get_settlement", usernames |-> usernames, up |-> up,
                     result |-> get_settlement(ledger, usernames, up)]
    /\ UNCHANGED <<file_exists, ledger, botvars>>

NextSettle == call_get_settlement

SpecSettle == InitSettle /\ [][NextSettle]_vars

(***************************************************************************)
(* Inputs of the settlement conversation specification                     *)
(***************************************************************************)

\* The number of pieces of a message
MaxTextLen == 3

TextPieces == {" ", ",", "@", "alice"}

\* "alice bob Alice" and "@alice,@@bob, Alice\nalice"
LongTexts ==
    {<<"alice", " ", "bob", " ", "Alice">>,
     <<"@", "alice", ",", "@", "@", "bob", ",", " ", "Alice", "\n", "alice">>}

\* The messages sent as usernames: filters.TEXT passes no empty text
UsersTexts == (SeqsUpTo(TextPieces, MaxTextLen) \ {<<>>}) \cup LongTexts

\* The three-user ledger followed by a row of carol with the price nan
NanLedger ==
    Append(ThreeUserLedger,
           [Date |-> <<(<<2024, 2, 29>>), "12:00:00">>, User |-> "carol",
            Category |-> "Unknown", Price |-> NanText, Comment |-> EmptyText])

UsersLedgers == {<<>>, ThreeUserLedger, NanLedger}

InitUsers ==
    /\ file_exists \in BOOLEAN
    /\ ledger \in (IF file_exists THEN UsersLedgers ELSE {<<>>})
    /\ ret = NoCall
    /\ categories = <<"Other">>
    /\ conv = NoConversation
    /\ user_data = <<>>
    /\ reply = NoReply

NextUsers ==
    \/ settle_command
    \/ \E text \in UsersTexts : receive_settlement_users(text)
    \/ cancel

SpecUsers == InitUsers /\ [][NextUsers]_vars

(***************************************************************************)
(* Inputs of the category setup specification                              *)
(***************************************************************************)

\* The number of pieces of a message with categories
MaxCategoryTextLen == 3

CategoryPieces == {",", " ", "Food", "OTHER"}

\* The messages sent as categories: filters.TEXT passes no empty text
CategoryTexts == SeqsUpTo(CategoryPieces, MaxCategoryTextLen) \ {<<>>}

InitCategories ==
    /\ file_exists = FALSE
    /\ ledger = <<>>
    /\ ret = NoCall
    /\ categories = <<>>
    /\ conv = NoConversation
    /\ user_data = <<>>
    /\ reply = NoReply

NextCategories ==
    \/ start_command
    \/ set_categories_command
    \/ \E text \in CategoryTexts : receive_categories(text)
    \/ cancel

SpecCategories == InitCategories /\ [][NextCategories]_vars

(***************************************************************************)
(* Inputs of the period specification                                      *)
(***************************************************************************)

MaxPeriodRows == 4

PeriodDates ==
    {<<2023, 2, 10>>, <<2023, 12, 31>>, <<2024, 1, 1>>,
     <<2024, 2, 15>>, <<2024, 2, 29>>, <<2024, 4, 30>>}

PeriodRows ==
    [Date : {<<ymd, "12:00:00">> : ymd \in PeriodDates},
     User : {"alice"}, Category : {"Food"},
     Price : {NumberText(150)}, Comment : {EmptyText}]

InitPeriods ==
    /\ file_exists = TRUE
    /\ ledger \in SeqsUpTo(PeriodRows, MaxPeriodRows)
    /\ ret = NoCall
    /\ BotIdle

call_get_periods ==
    /\ file_exists /\ ret = NoCall
    /\ ret' = [op |-> "get_periods", result |-> get_periods(ledger)]
    /\ UNCHANGED <<file_exists, ledger, botvars>>

NextPeriods == call_get_periods

SpecPeriods == InitPeriods /\ [][NextPeriods]_vars

(***************************************************************************)
(* Claims about get_stat_for_period (specification SpecStat)               *)
(***************************************************************************)

\* The date part of a row as one number, yyyymmdd.
DayKey(ymd) == ymd[1] * 10000 + ymd[2] * 100 + ymd[3]

\* The rows of the ledger whose date part lies in [start, end].
InWindowIdx(rows, start, end) ==
    {k \in 1..Len(rows) :
        DayKey(start) <= DayKey(rows[k].Date[1]) /\ DayKey(rows[k].Date[1]) <= DayKey(end)}

RECURSIVE SumCents(_, _)
SumCents(rows, S) ==
    IF S = {} THEN 0
    ELSE LET k == CHOOSE x \in S : TRUE IN rows[k].Price.cents + SumCents(rows, S \ {k})

WellFormedRows(rows) == \A k \in 1..Len(rows) : rows[k].Price.kind = "number"

StatCalled == ret.op = "get_stat_for_period"

\* C1: for a ledger of well-formed rows and any window [start, end],
\* get_stat_for_period returns a total equal to the sum of the amounts of
\* exactly the rows with start <= date <= end (both inclusive), and the total
\* equals the sum of by_category and the sum of by_user.
C1_StatTotal ==
    (StatCalled /\ WellFormedRows(ledger)) =>
        /\ ret.result.ok
        /\ ret.result.total = SumCents(ledger, InWindowIdx(ledger, ret.start, ret.end))
        /\ ret.result.total = dict_sum(ret.result.by_category)
        /\ ret.result.total = dict_sum(ret.result.by_user)

\* A two-row ledger with one row on the first and one on the last day of the
\* window, in two categories, both counted.
C1_Witness ==
    /\ StatCalled /\ WellFormedRows(ledger) /\ Len(ledger) = 2
    /\ ledger[1].Date[1] = ret.end /\ ledger[2].Date[1] = ret.start
    /\ ret.start # ret.end
    /\ ledger[1].Category # ledger[2].Category
    /\ ret.result.ok
    /\ ret.result.total = ledger[1].Price.cents + ledger[2].Price.cents

\* The rows in the window of the call
StatWindow == InWindowIdx(ledger, ret.start, ret.end)

\* C11: get_stat_for_period fails exactly when some row inside the window
\* has a price that is empty or not a number; such a row is never left out
\* of the totals silently, and such a row outside the window does not make
\* the call fail: then the total is the sum over the rows in the window.
C11_FailsOnInWindowBadPrice ==
    StatCalled =>
        /\ ret.result.ok <=> \A k \in StatWindow : float_ok(ledger[k].Price)
        /\ ret.result.ok => ret.result.total = SumCents(ledger, StatWindow)

\* A good row followed by a row without a number, both in the window: the
\* call fails.
C11_Witness ==
    /\ StatCalled /\ Len(ledger) = 2 /\ StatWindow = {1, 2}
    /\ float_ok(ledger[1].Price) /\ ~float_ok(ledger[2].Price)
    /\ ~ret.result.ok


\* C19: the keys of by_category returned by get_stat_for_period are exactly
\* the category texts of the rows in the window, and the keys of by_user
\* exactly their users: no key without a row in the window, and a category
\* is counted whether or not it is among the categories saved for the chat.
C19_KeysAreInWindowLabels ==
    (StatCalled /\ ret.result.ok) =>
        /\ DOMAIN ret.result.by_category = {ledger[k].Category : k \in StatWindow}
        /\ DOMAIN ret.result.by_user = {ledger[k].User : k \in StatWindow}

\* Two rows of different categories and users, the second of them in the
\* window; its category is not among the categories saved for the chat.
C19_Witness ==
    /\ StatCalled /\ ret.result.ok /\ Len(ledger) = 2 /\ StatWindow = {2}
    /\ ledger[1].Category # ledger[2].Category /\ ledger[1].User # ledger[2].User
    /\ ledger[1].Category \in Range(categories)
    /\ ledger[2].Category \notin Range(categories)
    /\ DOMAIN ret.result.by_category = {ledger[2].Category}
    /\ DOMAIN ret.result.by_user = {ledger[2].User}

(***************************************************************************)
(* Claims about get_csv_for_period (specification SpecCsv)                 *)
(***************************************************************************)

CsvCalled == ret.op = "get_csv_for_period"

\* The idx-th smallest element of a set of numbers
NthSmallest(S, idx) == CHOOSE a \in S : Cardinality({b \in S : b < a}) = idx - 1

\* C15: get_csv_for_period writes the header and exactly the rows whose
\* date lies in [start, end], both days included, in the order of the
\* ledger, each with its five fields unchanged and in the column order of
\* the ledger; rows whose price is not a number are written like the others.
C15_CsvExactWindow ==
    CsvCalled =>
        LET window == InWindowIdx(ledger, ret.start, ret.end) IN
        /\ ret.result.header = <<"Date", "User", "Category", "Price", "Comment">>
        /\ Len(ret.result.lines) = Cardinality(window)
        /\ \A idx \in 1..Cardinality(window) :
              LET row == ledger[NthSmallest(window, idx)] IN
              ret.result.lines[idx] =
                  <<row.Date, row.User, row.Category, row.Price, row.Comment>>

\* Three rows, the middle one outside the window and the last one with a
\* price that is not a number: get_stat_for_period fails on this window and
\* the export holds the first and the last row.
C15_Witness ==
    /\ CsvCalled /\ Len(ledger) = 3
    /\ InWindowIdx(ledger, ret.start, ret.end) = {1, 3}
    /\ ledger[1].Date[1] = ret.end /\ ledger[3].Date[1] = ret.start
    /\ ~float_ok(ledger[3].Price) /\ ledger[1] # ledger[3]
    /\ ~get_stat_for_period(ledger, ret.start, ret.end).ok
    /\ Len(ret.result.lines) = 2

(***************************************************************************)
(* Claims about get_settlement (specification SpecSettle)                  *)
(***************************************************************************)

SettleCalled == ret.op = "get_settlement"

\* The number of participants of the call
NumUsers == Len(ret.usernames)

\* sum(balances.values()), in cents
BalanceSum == dict_sum(ret.result.balances)

RECURSIVE NetPaid(_, _, _)
\* What u has paid minus what u has received in transactions k..
NetPaid(txs, k, u) ==
    IF k > Len(txs) THEN 0
    ELSE (IF txs[k].from = u THEN txs[k].amount ELSE 0)
         - (IF txs[k].to = u THEN txs[k].amount ELSE 0)
         + NetPaid(txs, k + 1, u)

\* The balance of u after all transactions are applied: the payer's balance
\* goes up by the amount, the payee's goes down.
Residual(u) == ret.result.balances[u] + NetPaid(ret.result.transactions, 1, u)

\* C2 as stated: the sum of the balances returned by get_settlement is
\* within 0.01 of zero, for every ledger and participant list.
C2_BalanceSumWithinOneCent ==
    SettleCalled => abs(BalanceSum) <= 1

\* C2 amended: the sum of the balances is within 0.005 * n of zero, n being
\* the number of participants (each balance is rounded to the cent by itself).
C2_BalanceSumWithinHalfCentEach ==
    SettleCalled => 2 * abs(BalanceSum) <= NumUsers

\* Five participants, no rounding on a tie, and balances that sum to 0.02.
C2_Witness ==
    /\ SettleCalled /\ NumUsers = 5
    /\ tie_keys(ledger, ret.usernames) = {}
    /\ abs(BalanceSum) = 2

\* C3 as stated: after all transactions of get_settlement are applied to the
\* balances, every participant's residual balance is within 0.01 of zero.
C3_ResidualWithinOneCent ==
    SettleCalled => \A u \in Range(ret.usernames) : abs(Residual(u)) <= 1

\* C3 amended: after all transactions are applied, every participant's
\* residual balance is within 0.005 * n of zero, n being the number of
\* participants.
C3_ResidualWithinHalfCentEach ==
    SettleCalled => \A u \in Range(ret.usernames) : 2 * abs(Residual(u)) <= NumUsers

\* A sweep of at least two transfers that leaves a residual of 0.02 with
\* five participants and no rounding on a tie.
C3_Witness ==
    /\ SettleCalled /\ NumUsers = 5
    /\ tie_keys(ledger, ret.usernames) = {}
    /\ Len(ret.result.transactions) >= 2
    /\ \E u \in Range(ret.usernames) : abs(Residual(u)) = 2

\* C4: every transaction of get_settlement has amount > 0 and from # to, its
\* payer is a participant with a negative balance and its payee a
\* participant with a positive balance.
C4_TransactionsWellFormed ==
    SettleCalled =>
        \A k \in 1..Len(ret.result.transactions) :
            LET tx == ret.result.transactions[k] IN
            /\ tx.amount > 0
            /\ tx.from # tx.to
            /\ tx.from \in Range(ret.usernames) /\ ret.result.balances[tx.from] < 0
            /\ tx.to \in Range(ret.usernames) /\ ret.result.balances[tx.to] > 0

\* Two creditors and two debtors, and a transaction for each.
C4_Witness ==
    /\ SettleCalled
    /\ Len(ret.result.transactions) >= 3
    /\ Cardinality({ret.result.transactions[k].to :
                        k \in 1..Len(ret.result.transactions)}) >= 2
    /\ Cardinality({ret.result.transactions[k].from :
                        k \in 1..Len(ret.result.transactions)}) >= 2

\* C5: for n >= 1 distinct participants get_settlement returns at most
\* n - 1 transactions.
C5_AtMostNMinusOneTransactions ==
    (SettleCalled /\ NumUsers >= 1) => Len(ret.result.transactions) <= NumUsers - 1

\* The bound is met: n - 1 transactions among n >= 3 participants.
C5_Witness ==
    /\ SettleCalled /\ NumUsers >= 3
    /\ Len(ret.result.transactions) = NumUsers - 1

\* The rows of the ledger whose user is a participant, in ledger order
ParticipantRows(rows, usernames) ==
    SelectSeq(rows, LAMBDA row : row.User \in Range(usernames))

\* C10: get_settlement depends only on the rows of the listed participants:
\* its result (spent, average, balances, transactions) on the ledger is its
\* result on the ledger with every row of a non-participant removed, so two
\* ledgers that agree on the participants' rows give the same result.
C10_OnlyParticipantRows ==
    SettleCalled =>
        ret.result = get_settlement(ParticipantRows(ledger, ret.usernames),
                                    ret.usernames, ret.up)

\* A ledger with a parsable row of a non-participant, and a settlement with
\* a transaction among the participants.
C10_Witness ==
    /\ SettleCalled
    /\ \E k \in 1..Len(ledger) :
          ledger[k].User \notin Range(ret.usernames) /\ float_ok(ledger[k].Price)
    /\ \E k \in 1..Len(ledger) : ledger[k].User \in Range(ret.usernames)
    /\ ret.result.transactions # <<>>

\* The rows of u whose price is a number
NumberRowsOf(rows, u) ==
    {k \in 1..Len(rows) : rows[k].User = u /\ rows[k].Price.kind = "number"}

\* C12: get_settlement does not fail on a price: a participant's row whose
\* price is empty or not a number adds 0 to the participant's spent, and
\* every other row of the participant is summed.
C12_BadPriceCountsZero ==
    SettleCalled =>
        /\ DOMAIN ret.result.spent = Range(ret.usernames)
        /\ \A u \in Range(ret.usernames) :
              ret.result.spent[u] = SumCents(ledger, NumberRowsOf(ledger, u))

\* A participant with a row without a number before a row with one.
C12_Witness ==
    /\ SettleCalled /\ Len(ledger) = 2
    /\ ledger[1].User = ledger[2].User /\ ledger[1].User \in Range(ret.usernames)
    /\ ~float_ok(ledger[1].Price) /\ float_ok(ledger[2].Price)
    /\ ret.result.spent[ledger[1].User] = ledger[2].Price.cents

\* All participants have spent the same
EqualSpend ==
    \A u, v \in Range(ret.usernames) :
        SumCents(ledger, NumberRowsOf(ledger, u)) = SumCents(ledger, NumberRowsOf(ledger, v))

\* C13: when all participants have the same total spend (one participant
\* alone, or nobody has spent anything, included), get_settlement returns
\* the balance 0 for every participant and no transaction.
C13_EqualSpendNoTransactions ==
    (SettleCalled /\ EqualSpend) =>
        /\ \A u \in Range(ret.usernames) : ret.result.balances[u] = 0
        /\ ret.result.transactions = <<>>

\* Two participants who have both spent the same positive amount.
C13_Witness ==
    /\ SettleCalled /\ EqualSpend /\ NumUsers = 2
    /\ \A u \in Range(ret.usernames) : ret.result.spent[u] > 0
    /\ ret.result.transactions = <<>>

\* C14: for n >= 1 participants, spent[p] is the sum of the parsable prices
\* of all rows of p whatever their date (0 without rows), average is the
\* total spent divided by n and balances[p] is spent[p] - average, both
\* rounded to the cent; the rows (alice, 10), (bob, 30), (carol, 20) with
\* these three participants give average 20, balances -10, +10 and 0 and
\* the one transaction alice pays bob 10.
C14_SpentAverageBalances ==
    (SettleCalled /\ NumUsers >= 1) =>
        LET total == SumCents(ledger, UNION {NumberRowsOf(ledger, u) : u \in Range(ret.usernames)})
        IN  /\ \A u \in Range(ret.usernames) :
                  /\ ret.result.spent[u] = SumCents(ledger, NumberRowsOf(ledger, u))
                  /\ 2 * abs(NumUsers * ret.result.balances[u]
                             - (NumUsers * ret.result.spent[u] - total)) <= NumUsers
            /\ 2 * abs(NumUsers * ret.result.average - total) <= NumUsers
            /\ (ledger = ThreeUserLedger /\ Range(ret.usernames) = {"alice", "bob", "carol"}) =>
                  /\ ret.result.average = 2000
                  /\ ret.result.balances =
                        [u \in {"alice", "bob", "carol"} |->
                            IF u = "alice" THEN -1000 ELSE IF u = "bob" THEN 1000 ELSE 0]
                  /\ ret.result.transactions =
                        <<[from |-> "alice", to |-> "bob", amount |-> 1000]>>

\* The three-user ledger settled among its three users.
C14_Witness ==
    /\ SettleCalled /\ ledger = ThreeUserLedger
    /\ ret.usernames = <<"carol", "bob", "alice">>
    /\ ret.result.average = 2000
    /\ Len(ret.result.transactions) = 1

RECURSIVE SweepStates(_)
\* The states of the sweep before each iteration, and the state it ends in
SweepStates(st) ==
    IF sweep_running(st) THEN <<st>> \o SweepStates(sweep_step(st)) ELSE <<st>>

\* The sweep of the call
SweepRun == SweepStates(sweep_start(ret.usernames, ret.result.balances))

\* The names at the places 1..upto of a list of <<name, balance>>
NamesUpTo(list, upto) == {list[k][1] : k \in 1..upto}

\* The sweep as C20 describes it, Settled(x) telling when a remaining
\* balance of x cents lets the pointer advance.
SweepAsDescribed(Settled(_)) ==
    LET run == SweepRun
        first == run[1]
        txs == ret.result.transactions
    IN  /\ NamesUpTo(first.creditors, Len(first.creditors))
               = {u \in Range(ret.usernames) : ret.result.balances[u] > 0}
        /\ NamesUpTo(first.debtors, Len(first.debtors))
               = {u \in Range(ret.usernames) : ret.result.balances[u] < 0}
        /\ \A a, b \in 1..Len(first.creditors) :
              /\ first.creditors[a][2] = ret.result.balances[first.creditors[a][1]]
              /\ a < b => first.creditors[a][2] >= first.creditors[b][2]
        /\ \A a, b \in 1..Len(first.debtors) :
              /\ first.debtors[a][2] = ret.result.balances[first.debtors[a][1]]
              /\ a < b => first.debtors[a][2] <= first.debtors[b][2]
        /\ txs = run[Len(run)].transactions
        /\ \A k \in 1..(Len(run) - 1) :
              LET st == run[k]
                  nx == run[k + 1]
                  cred == st.creditors[st.i + 1]
                  debt == st.debtors[st.j + 1]
                  transfer == min(cred[2], 0 - debt[2])
              IN  /\ nx.transactions =
                        Append(st.transactions,
                               [from |-> debt[1], to |-> cred[1], amount |-> transfer])
                  /\ nx.creditors[st.i + 1][2] = cred[2] - transfer
                  /\ nx.debtors[st.j + 1][2] = debt[2] + transfer
                  /\ nx.i = (IF Settled(cred[2] - transfer) THEN st.i + 1 ELSE st.i)
                  /\ nx.j = (IF Settled(debt[2] + transfer) THEN st.j + 1 ELSE st.j)
                  /\ \A t \in (Len(nx.transactions) + 1)..Len(txs) :
                        /\ txs[t].to \notin NamesUpTo(nx.creditors, nx.i)
                        /\ txs[t].from \notin NamesUpTo(nx.debtors, nx.j)

\* |x| <= 0.01
WithinOneCent(x) == abs(x) <= Cent

\* |x| < 0.01
BelowOneCent(x) == abs(x) < Cent

\* C20 as stated: each iteration pairs the current creditor (largest
\* balance first) with the current debtor (most negative first) and
\* transfers the smaller of what is left on either side; a pointer advances
\* exactly when what is left on its side is within 0.01 of zero, and who has
\* been passed takes part in no later transaction.
C20_SweepAdvancesWithinOneCent ==
    (SettleCalled /\ ~ret.result.nan) => SweepAsDescribed(WithinOneCent)

\* C20 amended: the same, a pointer advancing exactly when what is left on
\* its side is less than 0.01 from zero: a side with exactly 0.01 left stays
\* current and takes part in the next transaction.
C20_SweepAdvancesBelowOneCent ==
    (SettleCalled /\ ~ret.result.nan) => SweepAsDescribed(BelowOneCent)

\* A sweep with a step that leaves the creditor exactly 0.01, after which
\* the creditor receives again, and a step in which both pointers advance.
C20_Witness ==
    /\ SettleCalled /\ ~ret.result.nan
    /\ \E k \in 1..(Len(SweepRun) - 2) :
          /\ SweepRun[k + 1].i = SweepRun[k].i
          /\ SweepRun[k + 1].creditors[SweepRun[k].i + 1][2] = Cent
          /\ SweepRun[k + 1].j = SweepRun[k].j + 1
          /\ ret.result.transactions[k + 1].to = ret.result.transactions[k].to
    /\ \E k \in 1..(Len(SweepRun) - 1) :
          /\ SweepRun[k + 1].i = SweepRun[k].i + 1
          /\ SweepRun[k + 1].j = SweepRun[k].j + 1

\* C21: the sweep of get_settlement ends for every ledger and every list of
\* participants: each iteration moves at least one of the two pointers on,
\* the loop makes at most (creditors + debtors - 1) iterations (none when a
\* list is empty), it goes on while both lists have an entry left and it
\* stops when one of them has none.
C21_SweepTerminates ==
    SettleCalled =>
        LET run == SweepRun
            last == run[Len(run)]
            iterations == Len(run) - 1
        IN  /\ \A k \in 1..iterations :
                  /\ sweep_running(run[k])
                  /\ run[k + 1].i >= run[k].i /\ run[k + 1].j >= run[k].j
                  /\ run[k + 1].i + run[k + 1].j > run[k].i + run[k].j
            /\ IF Len(last.creditors) = 0 \/ Len(last.debtors) = 0
               THEN iterations = 0
               ELSE iterations <= Len(last.creditors) + Len(last.debtors) - 1
            /\ last.i = Len(last.creditors) \/ last.j = Len(last.debtors)
            /\ last.i <= Len(last.creditors) /\ last.j <= Len(last.debtors)
            /\ ret.result.transactions = last.transactions

\* A sweep over two creditors and three debtors that takes the four
\* iterations of the bound, one side being left unsettled by a step.
C21_Witness ==
    /\ SettleCalled
    /\ Len(SweepRun[1].creditors) = 2 /\ Len(SweepRun[1].debtors) = 3
    /\ Len(SweepRun) - 1 = 4
    /\ \E k \in 1..(Len(SweepRun) - 1) :
          SweepRun[k + 1].i + SweepRun[k + 1].j = SweepRun[k].i + SweepRun[k].j + 1


\* The lists that name the participants of the call in some order
Reorderings(usernames) ==
    {q \in [1..Len(usernames) -> Range(usernames)] : Range(q) = Range(usernames)}

\* C26: the transactions of get_settlement depend on the ledger and on the
\* set of participants only: the same participants listed in any other
\* order give the same sequence of transactions, equal balances among the
\* creditors or among the debtors included.
C26_PlanIndependentOfOrder ==
    SettleCalled =>
        \A q \in Reorderings(ret.usernames) :
            get_settlement(ledger, q, ret.up).transactions = ret.result.transactions

\* Two creditors with the same balance: the participants in another order
\* have the same balances and the same transactions in another sequence.
C26_Witness ==
    /\ SettleCalled /\ NumUsers = 3
    /\ \E a, b \in Range(ret.usernames) :
          a # b /\ ret.result.balances[a] > 0
                /\ ret.result.balances[a] = ret.result.balances[b]
    /\ \E q \in Reorderings(ret.usernames) :
          LET other == get_settlement(ledger, q, ret.up) IN
          /\ other.balances = ret.result.balances
          /\ other.transactions # ret.result.transactions
          /\ Range(other.transactions) = Range(ret.result.transactions)


(***************************************************************************)
(* Claims about the settlement conversation (specification SpecUsers)      *)
(***************************************************************************)

\* receive_settlement_users has answered the last message
UsersReplied == reply.handler = "receive_settlement_users"

\* ... and has called get_settlement
SettlementComputed == UsersReplied /\ reply.called

\* The sum of the numeric prices of the participants' rows
ParticipantTotal ==
    SumCents(ledger, UNION {NumberRowsOf(ledger, u) : u \in Range(reply.usernames)})

\* The participants' total spend is zero (a total that is nan is not)
ParticipantTotalZero ==
    /\ \A k \in 1..Len(ledger) :
          ledger[k].User \in Range(reply.usernames) => ~float_isnan(ledger[k].Price)
    /\ ParticipantTotal = 0

\* C22: after get_settlement has returned, the handler answers "no
\* settlement needed" exactly when the participants' total spend is zero or
\* no transaction was returned; otherwise it answers with the summary, which
\* lists every returned transaction in the returned order; either way the
\* settlement conversation is over.
C22_NoSettlementOrSummary ==
    SettlementComputed =>
        LET txs == reply.result.transactions IN
        /\ reply.kind \in {"no_settlement_needed", "settlement_summary"}
        /\ reply.kind = "no_settlement_needed" <=> (ParticipantTotalZero \/ txs = <<>>)
        /\ reply.kind = "settlement_summary" =>
              /\ Len(reply.lines) = Len(txs)
              /\ \A k \in 1..Len(txs) :
                    reply.lines[k] = <<txs[k].from, txs[k].to, txs[k].amount>>
        /\ conv.settle = END

\* A summary of two transactions with different payers.
C22_Witness ==
    /\ SettlementComputed
    /\ reply.kind = "settlement_summary"
    /\ Len(reply.lines) = 2
    /\ reply.lines[1][1] # reply.lines[2][1]
    /\ conv.settle = END

\* A piece that separates usernames
IsSeparator(piece) == piece \in Whitespace \cup {","}

\* The piece k of text is an "@" with nothing attached
BareAt(text, k) ==
    /\ text[k] = "@"
    /\ k = 1 \/ IsSeparator(text[k - 1])
    /\ k = Len(text) \/ IsSeparator(text[k + 1])

\* The text holds only separators and bare "@"
NoNames(text) == \A k \in 1..Len(text) : IsSeparator(text[k]) \/ BareAt(text, k)

\* C23: a message that holds only separators and bare "@" yields no
\* username: the handler does not call get_settlement, answers that it has
\* found no usernames and stays in SETTLEMENT_WAITING_FOR_USERS; every other
\* message yields a username, and get_settlement is only called with a list
\* that is not empty.
C23_NoUsernamesStaysWaiting ==
    UsersReplied =>
        /\ NoNames(reply.text) =>
              /\ ~reply.called
              /\ reply.kind = "no_usernames"
              /\ conv.settle = SETTLEMENT_WAITING_FOR_USERS
        /\ reply.called => (reply.usernames # <<>> /\ ~NoNames(reply.text))
        /\ reply.kind = "no_usernames" => NoNames(reply.text)

\* The message "@,@" has been answered.
C23_Witness ==
    /\ UsersReplied
    /\ reply.text = <<"@", ",", "@">>
    /\ reply.kind = "no_usernames"
    /\ conv.settle = SETTLEMENT_WAITING_FOR_USERS

\* The places <<a, b>> of the tokens of text: the longest runs of pieces
\* without a separator
TokenSpans(text) ==
    {span \in (1..Len(text)) \X (1..Len(text)) :
        /\ span[1] <= span[2]
        /\ \A k \in span[1]..span[2] : ~IsSeparator(text[k])
        /\ span[1] = 1 \/ IsSeparator(text[span[1] - 1])
        /\ span[2] = Len(text) \/ IsSeparator(text[span[2] + 1])}

\* The token at span without one leading "@"
SpanName(text, span) ==
    str_join(SubSeq(text, IF text[span[1]] = "@" THEN span[1] + 1 ELSE span[1], span[2]))

\* The place of the first token that stands for name
FirstSpan(text, name) ==
    CHOOSE a \in 1..Len(text) :
        /\ \E span \in TokenSpans(text) : span[1] = a /\ SpanName(text, span) = name
        /\ \A span \in TokenSpans(text) : SpanName(text, span) = name => a <= span[1]

\* C24: the list passed to get_settlement holds the tokens of the message
\* between commas and whitespace, each without one leading "@", the empty
\* ones left out, each name once (names differing in case being different)
\* at the place of its first occurrence; so the list has no duplicates and
\* the n of the average is the number of distinct participants.
C24_ParticipantList ==
    SettlementComputed =>
        LET text == reply.text
            usernames == reply.usernames
            names == {SpanName(text, span) : span \in TokenSpans(text)} \ {""}
        IN  /\ Range(usernames) = names
            /\ Len(usernames) = Cardinality(names)
            /\ \A a, b \in 1..Len(usernames) :
                  a < b => /\ usernames[a] # usernames[b]
                           /\ FirstSpan(text, usernames[a]) < FirstSpan(text, usernames[b])
            /\ ~reply.result.nan =>
                  2 * abs(Cardinality(names) * reply.result.average - ParticipantTotal)
                      <= Cardinality(names)

\* "@alice,@@bob, Alice\nalice" gives alice, @bob and Alice.
C24_Witness ==
    /\ SettlementComputed
    /\ Len(raw_tokens_of(reply.text)) = 4
    /\ reply.usernames = <<"alice", "@bob", "Alice">>
    /\ reply.result.average = 333


(***************************************************************************)
(* Claims about the category setup (specification SpecCategories)          *)
(***************************************************************************)

\* C25: the category list saved for the chat holds no empty label and no
\* label twice, whatever text receive_categories was given.
C25_CategoriesUnique ==
    /\ \A k \in 1..Len(categories) : categories[k] # ""
    /\ \A a, b \in 1..Len(categories) : a # b => categories[a] # categories[b]

\* receive_categories has saved a list that holds a label twice.
C25_Witness ==
    /\ reply.handler = "receive_categories" /\ reply.kind = "categories_saved"
    /\ categories = <<"Food", "Food", "Other">>
    /\ conv.setup = END


(***************************************************************************)
(* Claims about get_periods (specification SpecPeriods)                    *)
(***************************************************************************)

PeriodsCalled == ret.op = "get_periods"

\* The date texts of the ledger rows
LedgerDays == {ledger[k].Date[1] : k \in 1..Len(ledger)}

\* The (year, month) pairs of the ledger, as month numbers year * 12 + month
LedgerMonths == {ymd[1] * 12 + ymd[2] : ymd \in LedgerDays}

LedgerYears == {ymd[1] : ymd \in LedgerDays}

Largest(S) == CHOOSE a \in S : \A b \in S : b <= a

\* The idx-th largest element of a set of numbers
NthLargest(S, idx) == CHOOSE a \in S : Cardinality({b \in S : b > a}) = idx - 1

\* The Gregorian calendar: the number of days of a month
CalendarDays(year, month) ==
    CASE month \in {4, 6, 9, 11} -> 30
      [] month = 2 /\ year \in {2024, 2028, 2000} -> 29
      [] month = 2 -> 28
      [] OTHER -> 31

CalendarMonthName(month) ==
    CASE month = 1 -> "January" [] month = 2 -> "February" [] month = 3 -> "March"
      [] month = 4 -> "April" [] month = 5 -> "May" [] month = 6 -> "June"
      [] month = 7 -> "July" [] month = 8 -> "August" [] month = 9 -> "September"
      [] month = 10 -> "October" [] month = 11 -> "November" [] OTHER -> "December"

\* The number of month windows: min(3, k) for k distinct (year, month) pairs
NumMonthWindows == min(3, Cardinality(LedgerMonths))

\* C6: for a non-empty ledger get_periods returns at most 5 windows, and the
\* last one is labeled "All period" and spans the minimum to the maximum
\* record date of the ledger, not padded to month or year boundaries.
C6_AllPeriodWindow ==
    (PeriodsCalled /\ ledger # <<>>) =>
        /\ Len(ret.result) >= 1 /\ Len(ret.result) <= 5
        /\ LET last == ret.result[Len(ret.result)] IN
           /\ last[1] = "All period"
           /\ last[2] \in LedgerDays /\ \A d \in LedgerDays : DayKey(last[2]) <= DayKey(d)
           /\ last[3] \in LedgerDays /\ \A d \in LedgerDays : DayKey(d) <= DayKey(last[3])

\* Five windows, from a ledger whose rows are not in the order of their
\* dates and whose first and last date are inside their months.
C6_Witness ==
    /\ PeriodsCalled /\ Len(ledger) >= 3 /\ Len(ret.result) = 5
    /\ DayKey(ledger[1].Date[1]) > DayKey(ledger[2].Date[1])
    /\ DayKey(ledger[Len(ledger)].Date[1]) < DayKey(ledger[1].Date[1])
    /\ ret.result[5] = <<"All period", <<2023, 2, 10>>, <<2024, 2, 15>>>>

\* C8: with k distinct (year, month) pairs in a non-empty ledger, the first
\* min(3, k) windows of get_periods are the windows of the min(3, k) most
\* recent pairs, most recent first, each labeled with the month name and
\* spanning day 1 to the last calendar day of the month.
C8_MonthWindows ==
    (PeriodsCalled /\ ledger # <<>>) =>
        /\ Len(ret.result) >= NumMonthWindows
        /\ \A idx \in 1..NumMonthWindows :
              LET ym == NthLargest(LedgerMonths, idx)
                  year == (ym - 1) \div 12
                  month == ym - 12 * year
              IN  ret.result[idx] =
                      <<CalendarMonthName(month), <<year, month, 1>>,
                        <<year, month, CalendarDays(year, month)>>>>

\* Four distinct months, of which the three last are offered; the leap
\* February ends on the 29th although the ledger has no row on that day.
C8_Witness ==
    /\ PeriodsCalled /\ Cardinality(LedgerMonths) = 4
    /\ <<2024, 2, 29>> \notin LedgerDays
    /\ ret.result[1] = <<"April", <<2024, 4, 1>>, <<2024, 4, 30>>>>
    /\ ret.result[2] = <<"February", <<2024, 2, 1>>, <<2024, 2, 29>>>>
    /\ ret.result[3] = <<"January", <<2024, 1, 1>>, <<2024, 1, 31>>>>

\* C9: for a non-empty ledger get_periods emits exactly one year window,
\* after all month windows and immediately before the "All period" window,
\* labeled with the most recent year of the ledger and spanning 1 January
\* to 31 December of that year.
C9_YearWindow ==
    (PeriodsCalled /\ ledger # <<>>) =>
        /\ Len(ret.result) = NumMonthWindows + 2
        /\ LET year == Largest(LedgerYears) IN
           ret.result[NumMonthWindows + 1] =
               <<ToString(year), <<year, 1, 1>>, <<year, 12, 31>>>>
        /\ ret.result[NumMonthWindows + 2][1] = "All period"

\* A ledger over two years whose first row is of the later year.
C9_Witness ==
    /\ PeriodsCalled /\ LedgerYears = {2023, 2024}
    /\ ledger[1].Date[1][1] = 2024
    /\ Len(ret.result) = 4
    /\ ret.result[3] = <<"2024", <<2024, 1, 1>>, <<2024, 12, 31>>>>

\* Every price of the ledger is a number above 0
AllPositive(rows) ==
    \A k \in 1..Len(rows) : rows[k].Price.kind = "number" /\ rows[k].Price.cents > 0

\* C28: every month window and the year window of get_periods holds the date
\* of a row of the ledger; so, when every price of the ledger is a number
\* above 0, get_stat_for_period on the same ledger has a total above 0 for
\* each of these windows, and period_selected does not answer "No expenses
\* found in this period".
C28_WindowsHoldARecord ==
    PeriodsCalled =>
        \A k \in 1..(Len(ret.result) - 1) :
            LET window == ret.result[k]
                stats == get_stat_for_period(ledger, window[2], window[3])
            IN  /\ \E day \in LedgerDays :
                      DayKey(window[2]) <= DayKey(day) /\ DayKey(day) <= DayKey(window[3])
                /\ AllPositive(ledger) =>
                      /\ stats.ok /\ ~stats.nan
                      /\ stats.total > 0
                      /\ ~no_expenses_found(stats)

\* Three month windows and the year window of a ledger over two years, each
\* with its own total above 0.
C28_Witness ==
    /\ PeriodsCalled /\ Len(ret.result) = 5 /\ AllPositive(ledger)
    /\ Cardinality(LedgerYears) = 2
    /\ Cardinality({get_stat_for_period(ledger, ret.result[k][2], ret.result[k][3]).total :
                       k \in 1..4}) >= 2
    /\ \A k \in 1..4 :
          get_stat_for_period(ledger, ret.result[k][2], ret.result[k][3]).total
              < get_stat_for_period(ledger, ret.result[5][2], ret.result[5][3]).total


(***************************************************************************)
(* Claims about the handlers (specification Spec)                          *)
(***************************************************************************)

\* C7: when the ledger holds no records, get_periods returns an empty
\* sequence, and /stat and /getfile end their conversation with a "nothing
\* to report" message, offer no period and store none.
C7_EmptyLedgerNothingToReport ==
    (ledger = <<>> /\ reply.handler \in {"stat_command", "getfile_command"}) =>
        /\ file_exists => get_periods(ledger) = <<>>
        /\ reply.kind = (IF file_exists THEN "no_expenses_found" ELSE "no_expenses_recorded")
        /\ reply.keyboard = <<>>
        /\ reply.handler = "stat_command" =>
              conv.stat = END /\ "stat_periods" \notin DOMAIN user_data
        /\ reply.handler = "getfile_command" =>
              conv.getfile = END /\ "file_periods" \notin DOMAIN user_data

\* /stat on an expenses file that holds no row: get_periods is called and
\* returns no window.
C7_Witness ==
    /\ file_exists /\ ledger = <<>>
    /\ reply.handler = "stat_command" /\ reply.kind = "no_expenses_found"
    /\ conv.stat = END

\* C16 as stated: after any sequence of interactions of the user, every
\* row of the ledger has an amount > 0.
C16_LedgerAmountsPositive ==
    \A k \in 1..Len(ledger) :
        ledger[k].Price.kind = "number" /\ ledger[k].Price.cents > 0

\* An expense saved after a period selection has cleared user_data in the
\* middle of the expense flow: category "Unknown", price 0.
C16_Witness ==
    /\ reply.kind = "expense_saved" /\ Len(ledger) = 2
    /\ ledger[1] = PriorLedger[1]
    /\ ledger[2].User = BotUser
    /\ ledger[2].Category = "Unknown" /\ ledger[2].Price = NumberText(0)

\* The price texts that are not a number or that are <= 0
RejectedPriceTexts == {text \in PriceTexts : text.kind # "number" \/ text.cents <= 0}

\* C17 as stated: when the text entered as the price is not a number or is
\* <= 0, no row is appended, the pending price stays as it is and the
\* conversation stays in ENTERING_PRICE.
C17_BadPriceRejected ==
    [][\A text \in RejectedPriceTexts :
          receive_price(text) =>
              /\ ledger' = ledger
              /\ ("expense_price" \in DOMAIN user_data') = ("expense_price" \in DOMAIN user_data)
              /\ user_data_get(user_data', "expense_price", Zero)
                     = user_data_get(user_data, "expense_price", Zero)
              /\ conv'.expense = ENTERING_PRICE]_vars

\* The text "nan" has been taken as the price and the comment is asked for.
C17_Witness ==
    /\ reply.handler = "receive_price" /\ reply.kind = "enter_comment"
    /\ conv.expense = ENTERING_COMMENT
    /\ "expense_price" \in DOMAIN user_data /\ user_data["expense_price"].nan

\* C18: the ledger is append-only: the step that saves an expense adds one
\* row at the end and keeps the rows before it, and every other step, the
\* calls of get_periods, get_stat_for_period, get_settlement and
\* get_csv_for_period included, leaves the ledger as it is; so the ledger
\* at an earlier time is a prefix of the ledger at any later time.
C18_LedgerAppendOnly ==
    [][IF reply'.kind = "expense_saved"
       THEN /\ Len(ledger') = Len(ledger) + 1
            /\ SubSeq(ledger', 1, Len(ledger)) = ledger
       ELSE ledger' = ledger]_vars

\* An expense saved behind the row the file held before.
C18_Witness ==
    /\ reply.kind = "expense_saved" /\ Len(ledger) = 2
    /\ ledger[1] = PriorLedger[1]
    /\ ledger[2].User = BotUser /\ ledger[2].Price = NumberText(150)

\* C27: the row appended at the end of an expense flow carries the category
\* selected and the price accepted in that flow: when receive_comment or
\* skip_comment saves, both are still pending in user_data and are what is
\* written, whatever /stat, /getfile, /settle and period selections came in
\* between; the row never has the fallback category "Unknown" nor the
\* fallback price 0.
C27_SavedRowFromFlow ==
    [][reply'.kind = "expense_saved" =>
          LET row == ledger'[Len(ledger')] IN
          /\ "expense_category" \in DOMAIN user_data
          /\ "expense_price" \in DOMAIN user_data
          /\ row.Category = user_data_get(user_data, "expense_category", "Unknown")
          /\ row.Price = float_str(user_data_get(user_data, "expense_price", Zero))
          /\ row.Category \in Range(categories)
          /\ row.Category # "Unknown"
          /\ row.Price # float_str(Zero)]_vars

\* A comment has ended an expense flow in which a period selection had
\* cleared user_data: the row has the comment, "Unknown" and 0.
C27_Witness ==
    /\ reply.handler = "receive_comment" /\ reply.kind = "expense_saved"
    /\ categories = <<"Other">>
    /\ ledger[Len(ledger)].User = BotUser
    /\ ledger[Len(ledger)].Comment = WordText
    /\ ledger[Len(ledger)].Category \notin Range(categories)
    /\ ledger[Len(ledger)].Price = float_str(Zero)
    /\ conv.expense = END

====
